---- MODULE Spec2Model ----
(***************************************************************************)
(* Model of tflint/client.go: the plugin-side RPC client.                  *)
(*   WalkResourceAttributes, EvaluateExpr, EmitIssue, EnsureNoError.       *)
(* The library calls the client makes (rpc.Client.Call, convert.Convert,   *)
(* gocty.FromCtyValue, range over hcl.Attributes) are modelled by what     *)
(* they do on a small domain of values.                                    *)
(***************************************************************************)
EXTENDS Integers, Sequences, FiniteSets, TLC

\* Longest list / tuple / map / object the host returns in the model.
MaxLen == 2

\* Most attributes one Plugin.Attributes response carries in the model.
MaxAttrs == 3

(***************************************************************************)
(* cty values.  One record shape for every value:                          *)
(*   ty    "string" "number" "bool" "dynamic" "list" "tuple" "map" "object"*)
(*   ety   element type of a list or map ("" otherwise)                    *)
(*   st    "known" "null" "unknown"                                        *)
(*   s, n, b   payload of a string, number (in tenths), bool               *)
(*   keys, elems   payload of a collection (keys only for map / object)    *)
(***************************************************************************)
Val(ty, ety, st, s, n, b, keys, elems) ==
  [ty |-> ty, ety |-> ety, st |-> st, s |-> s, n |-> n, b |-> b,
   keys |-> keys, elems |-> elems]

StringVal(s) == Val("string", "", "known", s, 0, FALSE, <<>>, <<>>)
NumberVal(n) == Val("number", "", "known", "", n, FALSE, <<>>, <<>>)
BoolVal(b)   == Val("bool", "", "known", "", 0, b, <<>>, <<>>)
NullVal(ty, ety)    == Val(ty, ety, "null", "", 0, FALSE, <<>>, <<>>)
UnknownVal(ty, ety) == Val(ty, ety, "unknown", "", 0, FALSE, <<>>, <<>>)
ListVal(ety, elems) == Val("list", ety, "known", "", 0, FALSE, <<>>, elems)
TupleVal(elems)     == Val("tuple", "", "known", "", 0, FALSE, <<>>, elems)
MapVal(ety, keys, elems) == Val("map", ety, "known", "", 0, FALSE, keys, elems)
ObjectVal(keys, elems)   == Val("object", "", "known", "", 0, FALSE, keys, elems)

\* The value a Go variable holds before anything is decoded into it.
Unset == Val("unset", "", "known", "", 0, FALSE, <<>>, <<>>)

\* Numbers are kept in tenths: 10 is 1, 15 is 1.5.
IsWhole(n) == n % 10 = 0

\* strconv / big.Float formatting of the numbers of the model.
NumToStr(n) ==
  CASE n = 10 -> "1"
    [] n = 20 -> "2"
    [] n = 15 -> "1.5"
    [] OTHER  -> "?"

IsNumeric(s) == s \in {"1", "2", "1.5"}

StrToNum(s) ==
  CASE s = "1"   -> 10
    [] s = "2"   -> 20
    [] s = "1.5" -> 15
    [] OTHER     -> 0

BoolToStr(b) == IF b THEN "true" ELSE "false"

ConvOk(v)      == [ok |-> TRUE, val |-> v, cause |-> ""]
ConvFail(why)  == [ok |-> FALSE, val |-> Unset, cause |-> why]

\* convert.GetConversionUnsafe(in, out) # nil, for primitive types.
HasPrimConversion(in, out) ==
  \/ in = out
  \/ in = "dynamic"
  \/ in = "string" /\ out \in {"number", "bool"}
  \/ in = "number" /\ out = "string"
  \/ in = "bool" /\ out = "string"

\* convert.Convert of a primitive (or dynamic) value to a primitive type.
ConvertPrim(v, out) ==
  IF v.ty = out THEN ConvOk(v)
  ELSE IF ~HasPrimConversion(v.ty, out) THEN ConvFail("unsuitable type")
  ELSE IF v.st = "unknown" THEN ConvOk(UnknownVal(out, ""))
  ELSE IF v.st = "null" THEN ConvOk(NullVal(out, ""))
  ELSE IF v.ty = "string" /\ out = "number" THEN
         IF IsNumeric(v.s) THEN ConvOk(NumberVal(StrToNum(v.s)))
         ELSE ConvFail("a number is required")
  ELSE IF v.ty = "string" /\ out = "bool" THEN
         IF v.s \in {"true", "false"} THEN ConvOk(BoolVal(v.s = "true"))
         ELSE ConvFail("a bool is required")
  ELSE IF v.ty = "number" /\ out = "string" THEN ConvOk(StringVal(NumToStr(v.n)))
  ELSE IF v.ty = "bool" /\ out = "string" THEN ConvOk(StringVal(BoolToStr(v.b)))
  ELSE ConvFail("unsuitable type")

\* convert.Convert of a value to list(ety) (coll = "list") or map(ety) (coll = "map").
ConvertColl(v, coll, ety) ==
  LET fromColl == IF coll = "list" THEN "tuple" ELSE "object"
      n        == Len(v.elems)
      conv(i)  == ConvertPrim(v.elems[i], ety)
  IN  IF v.ty = coll /\ v.ety = ety THEN ConvOk(v)
      ELSE IF v.ty = "dynamic" THEN
             IF v.st = "unknown" THEN ConvOk(UnknownVal(coll, ety))
             ELSE ConvOk(NullVal(coll, ety))
      ELSE IF v.ty = coll /\ ~HasPrimConversion(v.ety, ety)
             THEN ConvFail("incorrect element type")
      ELSE IF v.ty = fromColl
              /\ \E i \in 1..n : ~HasPrimConversion(v.elems[i].ty, ety)
             THEN ConvFail("incorrect element type")
      ELSE IF v.ty \notin {coll, fromColl} THEN ConvFail("unsuitable type")
      ELSE IF v.st = "unknown" THEN ConvOk(UnknownVal(coll, ety))
      ELSE IF v.st = "null" THEN ConvOk(NullVal(coll, ety))
      ELSE IF \E i \in 1..n : ~conv(i).ok THEN ConvFail("element conversion failed")
      ELSE ConvOk(Val(coll, ety, "known", "", 0, FALSE, v.keys,
                      [i \in 1..n |-> conv(i).val]))

(***************************************************************************)
(* Destinations (the dynamic type of EvaluateExpr's ret argument).         *)
(***************************************************************************)
SupportedShapes ==
  {"*string", "*int", "*[]string", "*[]int", "*map[string]string", "*map[string]int"}

\* Some destinations the type switch has no case for.
UnsupportedShapes == {"*bool", "*float64", "*[]bool", "*cty.Value"}

Shapes == SupportedShapes \cup UnsupportedShapes

\* Go values, in the record shape of Val.
GoString(s)  == Val("go.string", "", "known", s, 0, FALSE, <<>>, <<>>)
GoInt(i)     == Val("go.int", "", "known", "", i, FALSE, <<>>, <<>>)
GoFloat(n)   == Val("go.float64", "", "known", "", n, FALSE, <<>>, <<>>)
GoBool(b)    == Val("go.bool", "", "known", "", 0, b, <<>>, <<>>)
GoNil(coll, goety) == Val(coll, goety, "nil", "", 0, FALSE, <<>>, <<>>)
GoColl(coll, goety, keys, elems) == Val(coll, goety, "known", "", 0, FALSE, keys, elems)
GoCtyValue(v) == Val("cty.Value", "", "known", "", 0, FALSE, <<>>, <<v>>)

DecOk(g)      == [ok |-> TRUE, go |-> g, cause |-> ""]
DecFail(why)  == [ok |-> FALSE, go |-> Unset, cause |-> why]

\* gocty's fromCtyValue into a string, int, bool or float64 target.
DecodePrim(v, target) ==
  IF v.st = "null" /\ v.ty \notin {"list", "map"} THEN DecFail("null value is not allowed")
  ELSE IF v.st = "unknown" THEN DecFail("value must be known")
  ELSE IF v.ty = "string" /\ target = "string" THEN DecOk(GoString(v.s))
  ELSE IF v.ty = "number" /\ target = "int" THEN
         IF IsWhole(v.n) THEN DecOk(GoInt(v.n \div 10))
         ELSE DecFail("value must be a whole number")
  ELSE IF v.ty = "number" /\ target = "float64" THEN DecOk(GoFloat(v.n))
  ELSE IF v.ty = "bool" /\ target = "bool" THEN DecOk(GoBool(v.b))
  ELSE DecFail("wrong type for target")

\* gocty's fromCtyValue into a slice (coll = "list") or a map (coll = "map")
\* whose elements are goety ("string", "int" or "bool").  The target is set only
\* after every element decoded.
DecodeColl(v, coll, goety) ==
  LET gocoll == IF coll = "list" THEN "go.slice" ELSE "go.map"
      n      == Len(v.elems)
      dec(i) == DecodePrim(v.elems[i], goety)
      bad    == {i \in 1..n : ~dec(i).ok}
  IN  IF v.st = "null" /\ v.ty \notin {"list", "map"} THEN DecFail("null value is not allowed")
      ELSE IF v.st = "unknown" THEN DecFail("value must be known")
      ELSE IF v.ty # coll THEN DecFail("wrong type for target")
      ELSE IF v.st = "null" THEN DecOk(GoNil(gocoll, goety))
      ELSE IF bad # {} THEN DecFail(dec(CHOOSE i \in bad : \A j \in bad : i <= j).cause)
      ELSE DecOk(GoColl(gocoll, goety, v.keys, [i \in 1..n |-> dec(i).go]))

\* gocty.FromCtyValue(val, ret) (line 89), ret a non-nil pointer.
FromCtyValue(val, ret) ==
  CASE ret = "*cty.Value" -> DecOk(GoCtyValue(val))
    [] ret = "*string"    -> DecodePrim(val, "string")
    [] ret = "*int"       -> DecodePrim(val, "int")
    [] ret = "*bool"      -> DecodePrim(val, "bool")
    [] ret = "*float64"   -> DecodePrim(val, "float64")
    [] ret = "*[]string"  -> DecodeColl(val, "list", "string")
    [] ret = "*[]int"     -> DecodeColl(val, "list", "int")
    [] ret = "*[]bool"    -> DecodeColl(val, "list", "bool")
    [] ret = "*map[string]string" -> DecodeColl(val, "map", "string")
    [] ret = "*map[string]int"    -> DecodeColl(val, "map", "int")

\* The type switch of EvaluateExpr (lines 59-72): no default case, so any
\* other destination leaves val and err as they were.
TypeSwitch(val, ret) ==
  CASE ret = "*string"    -> ConvertPrim(val, "string")
    [] ret = "*int"       -> ConvertPrim(val, "number")
    [] ret = "*[]string"  -> ConvertColl(val, "list", "string")
    [] ret = "*[]int"     -> ConvertColl(val, "list", "number")
    [] ret = "*map[string]string" -> ConvertColl(val, "map", "string")
    [] ret = "*map[string]int"    -> ConvertColl(val, "map", "number")
    [] OTHER              -> ConvOk(val)

(***************************************************************************)
(* The values the host may return for Plugin.EvalExpr.                     *)
(***************************************************************************)
SeqsUpTo(S, n) == UNION {[1..k -> S] : k \in 0..n}

KeyNames == <<"k1", "k2", "k3", "k4">>
KeysOf(elems) == SubSeq(KeyNames, 1, Len(elems))

StrElems   == {StringVal("a"), StringVal("1"), NullVal("string", "")}
NumElems   == {NumberVal(10), NumberVal(15)}
BoolElems  == {BoolVal(TRUE)}
MixedElems == {StringVal("a"), StringVal("1"), NumberVal(10), BoolVal(TRUE)}

PrimValues ==
  {StringVal("a"), StringVal("1"), StringVal("1.5"), NumberVal(10), NumberVal(15),
   NumberVal(20), BoolVal(TRUE), BoolVal(FALSE),
   NullVal("dynamic", ""), UnknownVal("dynamic", ""),
   NullVal("string", ""), UnknownVal("number", ""),
   NullVal("list", "string"), UnknownVal("list", "number"), NullVal("map", "number")}

ListValues ==
  {ListVal("string", e) : e \in SeqsUpTo(StrElems, MaxLen)}
  \cup {ListVal("number", e) : e \in SeqsUpTo(NumElems, MaxLen)}
  \cup {ListVal("bool", e) : e \in SeqsUpTo(BoolElems, MaxLen)}
  \cup {TupleVal(e) : e \in SeqsUpTo(MixedElems, MaxLen)}

MapValues ==
  {MapVal("string", KeysOf(e), e) : e \in SeqsUpTo(StrElems, MaxLen)}
  \cup {MapVal("number", KeysOf(e), e) : e \in SeqsUpTo(NumElems, MaxLen)}
  \cup {MapVal("bool", KeysOf(e), e) : e \in SeqsUpTo(BoolElems, MaxLen)}
  \cup {ObjectVal(KeysOf(e), e) : e \in SeqsUpTo(MixedElems, MaxLen)}

CtyValues == PrimValues \cup ListValues \cup MapValues

(***************************************************************************)
(* Errors.  One record shape for every error value:                        *)
(*   kind  "nil"        the nil error                                      *)
(*         "transport"  what rpc.Client.Call returned (id names it)        *)
(*         "handler"    what the walker returned (id names the attribute)  *)
(*         "proc"       what the continuation returned                     *)
(*         "app"        a *Error (code, level, cause)                      *)
(*         "nilapp"     a nil *Error inside a non-nil error interface      *)
(*         "runtime"    a Go runtime panic value                           *)
(*         "lib"        what convert.Convert or gocty returned (id: why)   *)
(***************************************************************************)
Err(kind, code, level, cause, id) ==
  [kind |-> kind, code |-> code, level |-> level, cause |-> cause, id |-> id]

Nil == Err("nil", "", "", "", "")
TransportErr(id) == Err("transport", "", "", "", id)
HandlerErr(id)   == Err("handler", "", "", "", id)
ProcErr          == Err("proc", "", "", "", "")
NilAppErr        == Err("nilapp", "", "", "", "")
RuntimeErr(why)  == Err("runtime", "", "", "", why)
LibErr(why)      == Err("lib", "", "", "", why)
AppErr(code, level, cause) == Err("app", code, level, cause, "")

ErrorLevel   == "ErrorLevel"
WarningLevel == "WarningLevel"
\* Level is an int in the code: every other value of it.
OtherLevels  == {"Level2", "Level-1"}
Levels       == {ErrorLevel, WarningLevel} \cup OtherLevels

TypeConversionError == "TypeConversionError"
TypeMismatchError   == "TypeMismatchError"
Codes == {TypeConversionError, TypeMismatchError, "EvaluationError"}

TransportFaults == {TransportErr("unexpected EOF"), TransportErr("connection is shut down")}

\* What an operation has produced so far.
Running     == [st |-> "running", err |-> Nil]
Returned(e) == [st |-> "returned", err |-> e]
Panicked(e) == [st |-> "panicked", err |-> e]

(***************************************************************************)
(* Attributes.  hcl.Attributes is map[string]*hcl.Attribute: the response  *)
(* is decoded into a Go map keyed by attribute name.                       *)
(***************************************************************************)
AttrNames == <<"a1", "a2", "a3", "a4", "a5">>
Attrs == {AttrNames[i] : i \in 1..MaxAttrs}

Range(s) == {s[i] : i \in 1..Len(s)}
NoDup(s) == \A i, j \in 1..Len(s) : s[i] = s[j] => i = j

\* The entries of a map in the order the host wrote them on the wire.
WireOrders == {w \in SeqsUpTo(Attrs, MaxAttrs) : NoDup(w)}

\* The caller's walker: it fails on the attributes in failsOn.
Walker(fails, a) == IF a \in fails THEN HandlerErr(a) ELSE Nil

(***************************************************************************)
(* EnsureNoError (lines 133-150): how often proc runs, and the outcome.    *)
(***************************************************************************)
Outcome(runs, res) == [runs |-> runs, res |-> res]

\* Mutant: the continuation's result is itself classified, so a Warning it
\* returns is swallowed.
EnsureNoErrorClassifiesResult(err, procResult) ==
  IF err = Nil THEN
    IF procResult.kind = "app" /\ procResult.level = WarningLevel
      THEN Outcome(1, Returned(Nil))
      ELSE Outcome(1, Returned(procResult))
  ELSE IF err.kind = "nilapp" THEN Outcome(0, Panicked(RuntimeErr("nil pointer dereference")))
  ELSE IF err.kind = "app" THEN
    CASE err.level = WarningLevel -> Outcome(0, Returned(Nil))
      [] err.level = ErrorLevel   -> Outcome(0, Returned(err))
      [] OTHER                    -> Outcome(0, Panicked(err))
  ELSE Outcome(0, Returned(err))

\* Mutant: a Warning lets the continuation run.
EnsureNoErrorWarningRunsProc(err, procResult) ==
  IF err = Nil THEN Outcome(1, Returned(procResult))
  ELSE IF err.kind = "nilapp" THEN Outcome(0, Panicked(RuntimeErr("nil pointer dereference")))
  ELSE IF err.kind = "app" THEN
    CASE err.level = WarningLevel -> Outcome(1, Returned(procResult))
      [] err.level = ErrorLevel   -> Outcome(0, Returned(err))
      [] OTHER                    -> Outcome(0, Panicked(err))
  ELSE Outcome(0, Returned(err))

\* Mutant: the two cases of the switch are exchanged.
EnsureNoErrorCasesSwapped(err, procResult) ==
  IF err = Nil THEN Outcome(1, Returned(procResult))
  ELSE IF err.kind = "nilapp" THEN Outcome(0, Panicked(RuntimeErr("nil pointer dereference")))
  ELSE IF err.kind = "app" THEN
    CASE err.level = WarningLevel -> Outcome(0, Returned(Nil))
      [] err.level = ErrorLevel   -> Outcome(0, Returned(Nil))
      [] OTHER                    -> Outcome(0, Panicked(err))
  ELSE Outcome(0, Returned(err))

\* Mutant: the default case returns the error instead of panicking.
EnsureNoErrorDefaultReturns(err, procResult) ==
  IF err = Nil THEN Outcome(1, Returned(procResult))
  ELSE IF err.kind = "nilapp" THEN Outcome(0, Panicked(RuntimeErr("nil pointer dereference")))
  ELSE IF err.kind = "app" THEN
    CASE err.level = WarningLevel -> Outcome(0, Returned(Nil))
      [] err.level = ErrorLevel   -> Outcome(0, Returned(err))
      [] OTHER                    -> Outcome(0, Returned(err))
  ELSE Outcome(0, Returned(err))

\* Mutant: an error that is no *Error is dropped and the continuation runs.
EnsureNoErrorPlainIgnored(err, procResult) ==
  IF err = Nil THEN Outcome(1, Returned(procResult))
  ELSE IF err.kind = "nilapp" THEN Outcome(0, Panicked(RuntimeErr("nil pointer dereference")))
  ELSE IF err.kind = "app" THEN
    CASE err.level = WarningLevel -> Outcome(0, Returned(Nil))
      [] err.level = ErrorLevel   -> Outcome(0, Returned(err))
      [] OTHER                    -> Outcome(0, Panicked(err))
  ELSE Outcome(1, Returned(procResult))

EnsureNoErrorBody(err, procResult) ==
  IF err = Nil THEN Outcome(1, Returned(procResult))
  ELSE IF err.kind = "nilapp" THEN Outcome(0, Panicked(RuntimeErr("nil pointer dereference")))
  ELSE IF err.kind = "app" THEN
    CASE err.level = WarningLevel -> Outcome(0, Returned(Nil))
      [] err.level = ErrorLevel   -> Outcome(0, Returned(err))
      [] OTHER                    -> Outcome(0, Panicked(err))
  ELSE Outcome(0, Returned(err))

\* The errors a caller may hand to EnsureNoError.
InputErrs ==
  {Nil, NilAppErr, ProcErr}
  \cup TransportFaults
  \cup {HandlerErr(a) : a \in Attrs}
  \cup {AppErr(c, l, "cause") : c \in Codes, l \in Levels}

\* What the continuation may return.
ProcResults == {Nil, ProcErr, AppErr("EvaluationError", WarningLevel, "cause"),
                AppErr("EvaluationError", ErrorLevel, "cause")}

VARIABLES
  pc,          \* "idle", "walk" (in the loop), "switch", "decode", "done"
  op,          \* the operation running or just finished
  calls,       \* rpcClient.Call invocations made by the operation
  callErr,     \* what rpcClient.Call returned
  wire,        \* Plugin.Attributes response, in the host's order
  remaining,   \* entries of resp the range loop has not visited
  failsOn,     \* the walker of this call
  delivered,   \* attributes passed to the walker, in order
  hostVal,     \* the value Plugin.EvalExpr returned
  val,         \* EvaluateExpr's local val
  ret,         \* EvaluateExpr's destination shape
  dest,        \* what the destination holds
  evalErr,     \* EvaluateExpr's local err
  convTried,   \* convert.Convert was called
  decodeTried, \* gocty.FromCtyValue was called
  inErr,       \* EnsureNoError's err argument
  procResult,  \* what proc returns when called
  procRuns,    \* how often proc was called
  result       \* what the operation returned (or panicked with)

vars == <<pc, op, calls, callErr, wire, remaining, failsOn, delivered, hostVal, val, ret,
          dest, evalErr,
          convTried, decodeTried, inErr, procResult, procRuns, result>>

walkVars   == <<wire, remaining, failsOn, delivered>>
evalVars   == <<hostVal, val, ret, dest, evalErr, convTried, decodeTried>>
ensureVars == <<inErr, procResult, procRuns>>

Init ==
  /\ pc = "idle"
  /\ op = "none"
  /\ calls = 0
  /\ callErr = Nil
  /\ wire = <<>>
  /\ remaining = {}
  /\ failsOn = {}
  /\ delivered = <<>>
  /\ hostVal = Unset
  /\ val = Unset
  /\ ret = "*string"
  /\ dest = Unset
  /\ evalErr = Nil
  /\ convTried = FALSE
  /\ decodeTried = FALSE
  /\ inErr = Nil
  /\ procResult = Nil
  /\ procRuns = 0
  /\ result = Running

\* Mutant: the error of the call is dropped and the loop runs over the
\* empty response.
WalkCallIgnoresFailure ==
  /\ pc = "idle"
  /\ op' = "walk"
  /\ calls' = calls + 1
  /\ \E fails \in SUBSET Attrs :
       /\ failsOn' = fails
       /\ \/ \E f \in TransportFaults :
               /\ callErr' = f
               /\ pc' = "walk"
               /\ UNCHANGED <<wire, remaining, result>>
          \/ \E w \in WireOrders :
               /\ callErr' = Nil
               /\ wire' = w
               /\ remaining' = Range(w)
               /\ pc' = "walk"
               /\ UNCHANGED result
  /\ UNCHANGED <<delivered, evalVars, ensureVars>>

\* WalkResourceAttributes, lines 35-38: the one call to the host.
WalkCall ==
  /\ pc = "idle"
  /\ op' = "walk"
  /\ calls' = calls + 1
  /\ \E fails \in SUBSET Attrs :
       /\ failsOn' = fails
       /\ \/ \E f \in TransportFaults :
               /\ callErr' = f
               /\ result' = Returned(f)
               /\ pc' = "done"
               /\ UNCHANGED <<wire, remaining>>
          \/ \E w \in WireOrders :
               /\ callErr' = Nil
               /\ wire' = w
               /\ remaining' = Range(w)
               /\ pc' = "walk"
               /\ UNCHANGED result
  /\ UNCHANGED <<delivered, evalVars, ensureVars>>

\* Mutant: the walker's error is dropped and the loop goes on.
WalkStepKeepsGoing ==
  /\ pc = "walk"
  /\ \E a \in remaining :
       /\ delivered' = Append(delivered, a)
       /\ remaining' = remaining \ {a}
  /\ UNCHANGED <<op, calls, callErr, wire, failsOn, result, pc, evalVars, ensureVars>>

\* Mutant: an entry the loop visited may be visited again.
WalkStepRevisits ==
  /\ pc = "walk"
  /\ Len(delivered) <= MaxAttrs
  /\ \E a \in remaining :
       LET werr == Walker(failsOn, a) IN
       /\ delivered' = Append(delivered, a)
       /\ UNCHANGED remaining
       /\ IF werr # Nil
            THEN result' = Returned(werr) /\ pc' = "done"
            ELSE UNCHANGED <<result, pc>>
  /\ UNCHANGED <<op, calls, callErr, wire, failsOn, evalVars, ensureVars>>

\* Lines 40-44: one iteration of the range over the map.  Go leaves the
\* iteration order of a map unspecified: any unvisited entry may come next.
WalkStep ==
  /\ pc = "walk"
  /\ \E a \in remaining :
       LET werr == Walker(failsOn, a) IN
       /\ delivered' = Append(delivered, a)
       /\ remaining' = remaining \ {a}
       /\ IF werr # Nil
            THEN result' = Returned(werr) /\ pc' = "done"
            ELSE UNCHANGED <<result, pc>>
  /\ UNCHANGED <<op, calls, callErr, wire, failsOn, evalVars, ensureVars>>

\* Line 46: the loop ran out of entries.
WalkEnd ==
  /\ pc = "walk"
  /\ remaining = {}
  /\ result' = Returned(Nil)
  /\ pc' = "done"
  /\ UNCHANGED <<op, calls, callErr, walkVars, evalVars, ensureVars>>

\* EvaluateExpr, lines 52-57.
EvalCall ==
  /\ pc = "idle"
  /\ op' = "eval"
  /\ calls' = calls + 1
  /\ \E r \in Shapes :
       /\ ret' = r
       /\ \/ \E f \in TransportFaults :
               /\ callErr' = f
               /\ result' = Returned(f)
               /\ pc' = "done"
               /\ UNCHANGED <<hostVal, val>>
          \/ \E v \in CtyValues :
               /\ callErr' = Nil
               /\ hostVal' = v
               /\ val' = v
               /\ pc' = "switch"
               /\ UNCHANGED result
  /\ UNCHANGED <<dest, evalErr, convTried, decodeTried, walkVars, ensureVars>>

\* Mutant: the error of the conversion is not returned; the decode runs on
\* the unconverted value.
EvalSwitchFallsThrough ==
  /\ pc = "switch"
  /\ LET c == TypeSwitch(val, ret) IN
       /\ evalErr' = IF c.ok THEN Nil ELSE LibErr(c.cause)
       /\ val' = IF c.ok THEN c.val ELSE val
  /\ pc' = "decode"
  /\ convTried' = (ret \in SupportedShapes)
  /\ UNCHANGED <<op, calls, callErr, hostVal, ret, dest, decodeTried, result,
                 walkVars, ensureVars>>

\* Lines 59-87: the type switch, and the return when it left an error.
EvalSwitch ==
  /\ pc = "switch"
  /\ LET c == TypeSwitch(val, ret) IN
       IF ~c.ok
         THEN /\ evalErr' = LibErr(c.cause)
              /\ result' = Returned(AppErr(TypeConversionError, ErrorLevel, c.cause))
              /\ pc' = "done"
              /\ UNCHANGED val
         ELSE /\ evalErr' = Nil
              /\ val' = c.val
              /\ pc' = "decode"
              /\ UNCHANGED result
  /\ convTried' = (ret \in SupportedShapes)
  /\ UNCHANGED <<op, calls, callErr, hostVal, ret, dest, decodeTried, walkVars, ensureVars>>

\* Lines 89-104: the decode into the destination.
EvalDecode ==
  /\ pc = "decode"
  /\ LET d == FromCtyValue(val, ret) IN
       /\ result' = IF ~d.ok THEN Returned(AppErr(TypeMismatchError, ErrorLevel, d.cause))
                    ELSE Returned(Nil)
       /\ dest' = IF d.ok THEN d.go ELSE dest
       /\ evalErr' = IF d.ok THEN Nil ELSE LibErr(d.cause)
  /\ decodeTried' = TRUE
  /\ pc' = "done"
  /\ UNCHANGED <<op, calls, callErr, hostVal, val, ret, convTried, walkVars, ensureVars>>

\* EmitIssue, lines 118-129.
EmitIssue ==
  /\ pc = "idle"
  /\ op' = "emit"
  /\ calls' = calls + 1
  /\ \E e \in TransportFaults \cup {Nil} : callErr' = e /\ result' = Returned(e)
  /\ pc' = "done"
  /\ UNCHANGED <<walkVars, evalVars, ensureVars>>

\* EnsureNoError, lines 133-150.
EnsureNoError ==
  /\ pc = "idle"
  /\ op' = "ensure"
  /\ \E e \in InputErrs, p \in ProcResults :
       LET o == EnsureNoErrorBody(e, p) IN
       /\ inErr' = e
       /\ procResult' = p
       /\ procRuns' = o.runs
       /\ result' = o.res
  /\ pc' = "done"
  /\ UNCHANGED <<calls, callErr, walkVars, evalVars>>

\* The caller goes on to its next operation, with fresh locals.
NextOperation ==
  /\ pc = "done"
  /\ pc' = "idle"
  /\ op' = "none"
  /\ calls' = 0
  /\ callErr' = Nil
  /\ wire' = <<>>
  /\ remaining' = {}
  /\ failsOn' = {}
  /\ delivered' = <<>>
  /\ hostVal' = Unset
  /\ val' = Unset
  /\ ret' = "*string"
  /\ dest' = Unset
  /\ evalErr' = Nil
  /\ convTried' = FALSE
  /\ decodeTried' = FALSE
  /\ inErr' = Nil
  /\ procResult' = Nil
  /\ procRuns' = 0
  /\ result' = Running

Next ==
  \/ WalkCall
  \/ WalkStep
  \/ WalkEnd
  \/ EvalCall
  \/ EvalSwitch
  \/ EvalDecode
  \/ EmitIssue
  \/ EnsureNoError
  \/ NextOperation

Spec == Init /\ [][Next]_vars

(***************************************************************************)
(* Claims.                                                                 *)
(***************************************************************************)
EvalCallSucceeded == op = "eval" /\ callErr = Nil
IsClassified(e)   == e.kind = "app"

\* C1: in WalkResourceAttributes, an attribute the walker fails on is the
\* last one ever passed to it, the call has returned, and what it returned
\* is the walker's error itself.
C1_StopsAtFirstFailure ==
  op = "walk" =>
    \A i \in 1..Len(delivered) :
      Walker(failsOn, delivered[i]) # Nil =>
        /\ i = Len(delivered)
        /\ pc = "done"
        /\ result = Returned(Walker(failsOn, delivered[i]))

\* The walker failed on the second attribute it was given while the
\* response held more.
C1_Witness ==
  /\ op = "walk"
  /\ pc = "done"
  /\ Len(delivered) = 2
  /\ delivered[2] \in failsOn
  /\ remaining # {}
  /\ result = Returned(HandlerErr(delivered[2]))

C3_NilRunsContinuation ==
  (op = "ensure" /\ inErr = Nil) =>
    /\ procRuns = 1
    /\ result = Returned(procResult)

\* A nil error with a continuation that returns a Warning-level error.
C3_Witness ==
  /\ op = "ensure"
  /\ inErr = Nil
  /\ procRuns = 1
  /\ IsClassified(procResult)
  /\ procResult.level = WarningLevel
  /\ result = Returned(procResult)

\* C4: EnsureNoError with a *Error of level Warning never runs the
\* continuation and returns nil.
C4_WarningSwallowed ==
  (op = "ensure" /\ IsClassified(inErr) /\ inErr.level = WarningLevel) =>
    /\ procRuns = 0
    /\ result = Returned(Nil)

\* A Warning-level error, with a continuation that would have failed.
C4_Witness ==
  /\ op = "ensure"
  /\ IsClassified(inErr)
  /\ inErr.level = WarningLevel
  /\ procResult # Nil
  /\ result = Returned(Nil)

\* C5: EnsureNoError with a *Error of level Error never runs the
\* continuation and returns that error.
C5_ErrorReturned ==
  (op = "ensure" /\ IsClassified(inErr) /\ inErr.level = ErrorLevel) =>
    /\ procRuns = 0
    /\ result = Returned(inErr)

\* An Error-level error, with a continuation that would have succeeded.
C5_Witness ==
  /\ op = "ensure"
  /\ IsClassified(inErr)
  /\ inErr.level = ErrorLevel
  /\ procResult = Nil
  /\ result = Returned(inErr)

\* C6: EnsureNoError with a *Error whose level is neither Warning nor Error
\* panics with it, returns nothing and never runs the continuation.
C6_UnknownLevelPanics ==
  (op = "ensure" /\ IsClassified(inErr) /\ inErr.level \notin {WarningLevel, ErrorLevel}) =>
    /\ procRuns = 0
    /\ result = Panicked(inErr)

\* An error of another level was given and the call panicked.
C6_Witness ==
  /\ op = "ensure"
  /\ IsClassified(inErr)
  /\ inErr.level \in OtherLevels
  /\ result.st = "panicked"

\* C7 as stated: for a destination outside the supported set, EvaluateExpr
\* fails with a TypeConversionError or a TypeMismatchError and writes
\* nothing into the destination.
C7_UnsupportedShapeFails ==
  (EvalCallSucceeded /\ ret \in UnsupportedShapes) =>
    /\ dest = Unset
    /\ pc = "done" =>
         /\ result.st = "returned"
         /\ IsClassified(result.err)
         /\ result.err.code \in {TypeConversionError, TypeMismatchError}

\* C8: WalkResourceAttributes, EvaluateExpr and EmitIssue call the host
\* exactly once; when the call fails they return its error itself, having
\* invoked no walker, converted nothing and written nothing.
C8_OneCallFailureUnchanged ==
  /\ calls <= 1
  /\ op \in {"walk", "eval", "emit"} => calls = 1
  /\ (op \in {"walk", "eval", "emit"} /\ callErr # Nil) =>
       /\ pc = "done"
       /\ result = Returned(callErr)
       /\ delivered = <<>>
       /\ ~convTried
       /\ ~decodeTried
       /\ dest = Unset

\* EvaluateExpr's call to the host failed.
C8_Witness ==
  /\ op = "eval"
  /\ calls = 1
  /\ callErr \in TransportFaults
  /\ result = Returned(callErr)

\* C9: EnsureNoError with a non-nil error that is no *Error returns that
\* error and never runs the continuation; over all inputs the continuation
\* runs if and only if the error is nil.
C9_PlainErrorReturned ==
  op = "ensure" =>
    /\ inErr.kind \in {"transport", "handler", "proc"} =>
         (procRuns = 0 /\ result = Returned(inErr))
    /\ procRuns > 0 <=> inErr = Nil

\* A transport failure was given, with a continuation that would have
\* succeeded.
C9_Witness ==
  /\ op = "ensure"
  /\ inErr \in TransportFaults
  /\ procResult = Nil
  /\ result = Returned(inErr)

\* C10: in EvaluateExpr after a successful call, a failed conversion gives
\* a TypeConversionError carrying the cause, with no decode attempted and
\* the destination untouched; a failed decode gives a TypeMismatchError
\* carrying the cause; nil is returned only when neither step failed.
C10_ConversionThenDecode ==
  (EvalCallSucceeded /\ pc = "done") =>
    /\ ~TypeSwitch(hostVal, ret).ok =>
         /\ ~decodeTried
         /\ dest = Unset
         /\ evalErr # Nil
         /\ result = Returned(AppErr(TypeConversionError, ErrorLevel, evalErr.id))
    /\ (decodeTried /\ evalErr # Nil) =>
         /\ TypeSwitch(hostVal, ret).ok
         /\ result = Returned(AppErr(TypeMismatchError, ErrorLevel, evalErr.id))
    /\ result = Returned(Nil) =>
         /\ TypeSwitch(hostVal, ret).ok
         /\ decodeTried
         /\ evalErr = Nil
         /\ dest # Unset

\* The conversion to a supported destination succeeded and the decode
\* failed.
C10_Witness ==
  /\ EvalCallSucceeded
  /\ pc = "done"
  /\ ret = "*int"
  /\ convTried
  /\ decodeTried
  /\ IsClassified(result.err)
  /\ result.err.code = TypeMismatchError

====
